---------------------------- MODULE Spec2Model ----------------------------
(***************************************************************************)
(* Model of the chat gateway of src/index.js: the in-memory session map,   *)
(* the start / message / history / delete handlers, the hourly cleanup     *)
(* timer and the offline fallback responder.                               *)
(*                                                                         *)
(* JavaScript strings are sequences of pieces.  Session identifiers and    *)
(* client messages are sequences of one-character strings, so that         *)
(* toString, parseInt, toLowerCase and includes are computed and not       *)
(* assumed.  Long literal texts (welcome text, canned tips, provider       *)
(* output) are sequences of opaque pieces; + is \o.                        *)
(***************************************************************************)
EXTENDS Integers, Sequences, FiniteSets, TLC

(***************************************************************************)
(* Bounds of the model.                                                    *)
(***************************************************************************)
MaxHours == 1      \* the clock runs over the hours 0..MaxHours
MaxOffset == 2     \* ... and over the milliseconds 0..MaxOffset of each hour
MaxStarts == 2     \* start-session calls per run
MaxSends == 1      \* send-message calls per run of the whole system
MaxChatSends == 2  \* send-message calls per run within one hour
MaxInFlight == 2   \* send-message requests suspended at the same time
MaxChunks == 2     \* chunks the provider produces per stream

(***************************************************************************)
(* Strings.                                                                *)
(***************************************************************************)
Digits == <<"0", "1", "2", "3", "4", "5", "6", "7", "8", "9">>

UpperCase == <<"A", "B", "C", "D", "E", "F", "G", "H", "I", "J", "K", "L", "M",
               "N", "O", "P", "Q", "R", "S", "T", "U", "V", "W", "X", "Y", "Z">>

LowerCase == <<"a", "b", "c", "d", "e", "f", "g", "h", "i", "j", "k", "l", "m",
               "n", "o", "p", "q", "r", "s", "t", "u", "v", "w", "x", "y", "z">>

\* Number.prototype.toString() of a non-negative integer
RECURSIVE toString(_)
toString(n) ==
    IF n < 10 THEN <<Digits[n + 1]>>
    ELSE toString(n \div 10) \o <<Digits[(n % 10) + 1]>>

NaN == -1   \* parseInt never yields a negative number on the strings used here

IsDigit(c) == \E d \in 1..10 : Digits[d] = c

DigitValue(c) == (CHOOSE d \in 1..10 : Digits[d] = c) - 1

\* parseInt(s): the value of the longest prefix of decimal digits, NaN if empty
RECURSIVE parsePrefix(_, _, _)
parsePrefix(s, i, acc) ==
    IF i > Len(s) \/ ~IsDigit(s[i]) THEN acc
    ELSE parsePrefix(s, i + 1, 10 * acc + DigitValue(s[i]))

parseInt(s) ==
    IF Len(s) = 0 \/ ~IsDigit(s[1]) THEN NaN ELSE parsePrefix(s, 1, 0)

\* String.prototype.toLowerCase()
toLowerCase(s) ==
    [i \in 1..Len(s) |->
        IF \E k \in 1..26 : UpperCase[k] = s[i]
        THEN LowerCase[CHOOSE k \in 1..26 : UpperCase[k] = s[i]]
        ELSE s[i]]

\* String.prototype.includes(sub)
includes(s, sub) ==
    \E i \in 0..(Len(s) - Len(sub)) : SubSeq(s, i + 1, i + Len(sub)) = sub

(***************************************************************************)
(* Time.  Date.now() is read in milliseconds.  The instants the clock      *)
(* visits are the first milliseconds of each hour.                         *)
(***************************************************************************)
oneHour == 60 * 60 * 1000

Instants == {h * oneHour + o : h \in 0..MaxHours, o \in 0..MaxOffset}


(***************************************************************************)
(* Texts.                                                                  *)
(***************************************************************************)
welcomeMessage ==
    <<"Hi! I'm your AI fitness assistant powered by Google Gemini. Ask me anything about workouts, nutrition, or fitness!">>

fallbackResponses ==
    [workout    |-> <<"Quick workout tip: Try 10 push-ups, 15 squats, 30-sec plank. Repeat 3x!">>,
     diet       |-> <<"Quick nutrition tip: Fill half your plate with veggies, quarter with protein, quarter with complex carbs!">>,
     motivation |-> <<"You're already winning by asking! Every small step counts. Keep going, champion!">>,
     default    |-> <<"I'm having trouble connecting right now. Please try again!">>]

offlineSuffix == <<" (Offline mode)">>

kwWorkout    == <<"w", "o", "r", "k", "o", "u", "t">>
kwExercise   == <<"e", "x", "e", "r", "c", "i", "s", "e">>
kwDiet       == <<"d", "i", "e", "t">>
kwNutrition  == <<"n", "u", "t", "r", "i", "t", "i", "o", "n">>
kwMotivation == <<"m", "o", "t", "i", "v", "a", "t", "i", "o", "n">>

\* lines 220-229 with the diet keywords tested before the workout keywords
fallbackTextDietFirst(message) ==
    LET lowerMessage == toLowerCase(message)
    IN  IF includes(lowerMessage, kwDiet) \/ includes(lowerMessage, kwNutrition)
            THEN fallbackResponses.diet
        ELSE IF includes(lowerMessage, kwWorkout) \/ includes(lowerMessage, kwExercise)
            THEN fallbackResponses.workout
        ELSE IF includes(lowerMessage, kwMotivation)
            THEN fallbackResponses.motivation
        ELSE fallbackResponses.default

\* lines 220-229: the canned text chosen for a message (undefined -> '')
fallbackText(message) ==
    LET lowerMessage == toLowerCase(message)
    IN  IF includes(lowerMessage, kwWorkout) \/ includes(lowerMessage, kwExercise)
            THEN fallbackResponses.workout
        ELSE IF includes(lowerMessage, kwDiet) \/ includes(lowerMessage, kwNutrition)
            THEN fallbackResponses.diet
        ELSE IF includes(lowerMessage, kwMotivation)
            THEN fallbackResponses.motivation
        ELSE fallbackResponses.default

\* line 234: the text of the fallback response
fallbackReply(message) == fallbackText(message) \o offlineSuffix

(***************************************************************************)
(* Inputs of the requests.                                                 *)
(***************************************************************************)
msgHi == <<"h", "i">>

msgWorkout == <<"W", "o", "r", "k", "o", "u", "t", "?">>

\* message texts the clients send: the n-th request carries its own text,
\* or '' (a text, and falsy)
Messages(n) == {<<>>, IF n % 2 = 1 THEN msgHi ELSE msgWorkout}

unknownId == <<"a", "b", "c">>

\* session identifiers the clients send: the identifiers the server has
\* issued so far, one it never issues, and ''
RequestIds(known) == {known[i].id : i \in 1..Len(known)} \cup {unknownId, <<>>}

\* the :sessionId of a history or delete request: an identifier the server
\* has issued (stored or not any more)
PathIds(known) == {known[i].id : i \in 1..Len(known)}

\* req.body of POST /api/chat/message.  Each field may be missing: a field
\* is passed as <<>> (missing) or <<value>>.
Body(sessionId, message, stream) ==
    [f \in ({"sessionId" : x \in 1..Len(sessionId)}
            \cup {"message" : x \in 1..Len(message)}
            \cup {"stream" : x \in 1..Len(stream)}) |->
        CASE f = "sessionId" -> sessionId[1]
          [] f = "message"   -> message[1]
          [] f = "stream"    -> stream[1]]

Bodies(known, n) ==
    {Body(i, m, s) : i \in {<<>>} \cup {<<x>> : x \in RequestIds(known)},
                     m \in {<<>>} \cup {<<x>> : x \in Messages(n)},
                     s \in {<<>>, <<TRUE>>, <<FALSE>>}}

\* what the provider answers to a non-streaming call
Replies == {<<"reply">>}

\* the text of the k-th chunk of a provider stream
ChunkText(k) == toString(k)

(***************************************************************************)
(* State.                                                                  *)
(***************************************************************************)
VARIABLES
    now,            \* Date.now()
    nextSweep,      \* the instant from which the interval timer is due
    chatSessions,   \* the Map chatSessions: session identifier -> chat object
    chats,          \* the chat objects, by reference: chats[c] is its history
    reqs,           \* the send-message requests suspended in an await, oldest first
                    \* (before: history, the chat's turns when the request arrived)
    lastRes,        \* the response the last step sent to a client, if any
    issued,         \* history: the identifiers returned by start and when, in order
    calls,          \* history: calls[c] lists the provider calls completed on chat c
    removed,        \* history: identifier -> how it last left the store
    sends,          \* number of send-message requests received
    fbMessage,      \* fallback selection alone: the input message
    fbText          \* fallback selection alone: the text answered (<<>>: not yet)

vars == <<now, nextSweep, chatSessions, chats, reqs, lastRes, issued, calls,
          removed, sends, fbMessage, fbText>>

fbVars == <<fbMessage, fbText>>

\* the positions of the suspended requests, oldest first
Slots == 1..Len(reqs)

\* a list without its i-th element
Without(list, i) == SubSeq(list, 1, i - 1) \o SubSeq(list, i + 1, Len(list))

\* a response: the request it answers (its operation, its session identifier
\* and whether it carried every required field), what the provider did for it,
\* and the status and payload written to the client
Response(op, sessionId, provider, status, kind, text, isOffline, frames, history) ==
    [op |-> op, sessionId |-> sessionId, complete |-> TRUE, provider |-> provider, status |-> status, kind |-> kind, text |-> text,
     isOffline |-> isOffline, frames |-> frames, history |-> history]

NoResponse ==
    Response("none", <<>>, "none", 0, "none", <<>>, FALSE, <<>>, <<>>)

\* lines 43-47, 304-315: the state after the module is loaded
Init ==
    /\ now = 0
    /\ nextSweep = oneHour
    /\ chatSessions = <<>>
    /\ chats = <<>>
    /\ reqs = <<>>
    /\ lastRes = NoResponse
    /\ issued = <<>>
    /\ calls = <<>>
    /\ removed = <<>>
    /\ sends = 0
    /\ fbMessage = <<>>
    /\ fbText = <<>>

\* the clock advances to a later instant
Tick ==
    /\ \E t \in Instants : t > now /\ now' = t
    /\ lastRes' = NoResponse
    /\ UNCHANGED <<nextSweep, chatSessions, chats, reqs, issued, calls,
                   removed, sends, fbVars>>

\* Map.prototype.set
MapSet(map, key, value) ==
    [k \in DOMAIN map \cup {key} |-> IF k = key THEN value ELSE map[k]]

\* a delete that removes nothing
MapDeleteNothing(map, keys) == map

\* Map.prototype.delete
MapDelete(map, keys) == [k \in DOMAIN map \ keys |-> map[k]]

\* history: the identifier is stored again
Forget(log, sessionId) == [k \in DOMAIN log \ {sessionId} |-> log[k]]

\* line 81: the identifier of a session started at instant t
NewSessionId(t) == toString(t)

\* lines 85-98 with the welcome message seeded into the chat's history
startChatWithWelcome == <<[role |-> "model", parts |-> <<welcomeMessage>>]>>

\* lines 85-91: model.startChat({history: []})
startChat == <<>>

\* lines 78-109: POST /api/chat/start
StartSession ==
    /\ Len(issued) < MaxStarts
    /\ LET sessionId == NewSessionId(now)
           chat == Len(chats) + 1
       IN  /\ chats' = Append(chats, startChat)
           /\ calls' = Append(calls, <<>>)
           /\ chatSessions' = MapSet(chatSessions, sessionId, chat)
           /\ issued' = Append(issued, [id |-> sessionId, at |-> now])
           /\ removed' = Forget(removed, sessionId)
           /\ lastRes' = Response("start", sessionId, "none", 200,
                                  "welcome", welcomeMessage, FALSE, <<>>, <<>>)
    /\ UNCHANGED <<now, nextSweep, reqs, sends, fbVars>>

\* lines 263-268 losing the last turn
HistoryViewDropsLast(history) ==
    [index \in 1..(Len(history) - 1) |->
        [id |-> index - 1,
         text |-> history[index].parts[1],
         sender |-> IF history[index].role = "user" THEN "user" ELSE "bot"]]

\* lines 263-268 with every turn tagged 'bot'
HistoryViewAllBot(history) ==
    [index \in 1..Len(history) |->
        [id |-> index - 1,
         text |-> history[index].parts[1],
         sender |-> "bot"]]

\* lines 263-268: the history reshaped for the client
HistoryView(history) ==
    [index \in 1..Len(history) |->
        [id |-> index - 1,
         text |-> history[index].parts[1],
         sender |-> IF history[index].role = "user" THEN "user" ELSE "bot"]]

\* lines 245-269: GET /api/chat/history/:sessionId
GetHistory(sessionId) ==
    /\ IF sessionId \notin DOMAIN chatSessions
       THEN lastRes' = Response("history", sessionId, "none", 404,
                                "notFound", <<>>, FALSE, <<>>, <<>>)
       ELSE lastRes' = Response("history", sessionId, "none", 200,
                                "history", <<>>, FALSE, <<>>,
                                HistoryView(chats[chatSessions[sessionId]]))
    /\ UNCHANGED <<now, nextSweep, chatSessions, chats, reqs, issued, calls,
                   removed, sends, fbVars>>

\* lines 281-293 with chatSessions.clear() for chatSessions.delete(sessionId)
DeleteSessionClearsAll(sessionId) ==
    /\ IF sessionId \in DOMAIN chatSessions
       THEN /\ chatSessions' = MapDelete(chatSessions, DOMAIN chatSessions)
            /\ removed' = MapSet(removed, sessionId, "deleted")
            /\ lastRes' = Response("delete", sessionId, "none", 200,
                                   "cleared", <<>>, FALSE, <<>>, <<>>)
       ELSE /\ lastRes' = Response("delete", sessionId, "none", 404,
                                   "notFound", <<>>, FALSE, <<>>, <<>>)
            /\ UNCHANGED <<chatSessions, removed>>
    /\ UNCHANGED <<now, nextSweep, chats, reqs, issued, calls, sends, fbVars>>

\* lines 281-293: DELETE /api/chat/:sessionId
DeleteSession(sessionId) ==
    /\ IF sessionId \in DOMAIN chatSessions
       THEN /\ chatSessions' = MapDelete(chatSessions, {sessionId})
            /\ removed' = MapSet(removed, sessionId, "deleted")
            /\ lastRes' = Response("delete", sessionId, "none", 200,
                                   "cleared", <<>>, FALSE, <<>>, <<>>)
       ELSE /\ lastRes' = Response("delete", sessionId, "none", 404,
                                   "notFound", <<>>, FALSE, <<>>, <<>>)
            /\ UNCHANGED <<chatSessions, removed>>
    /\ UNCHANGED <<now, nextSweep, chats, reqs, issued, calls, sends, fbVars>>

\* lines 309-310 with twice the hour as the limit
ExpiredAfterTwoHours(sessionId, t) ==
    LET created == parseInt(sessionId)
    IN  created # NaN /\ t - created > 2 * oneHour

\* lines 309-310 with >= for >
ExpiredAtOneHour(sessionId, t) ==
    LET created == parseInt(sessionId)
    IN  created # NaN /\ t - created >= oneHour

\* lines 309-310: is the session of this identifier older than one hour at t
Expired(sessionId, t) ==
    LET created == parseInt(sessionId)
    IN  created # NaN /\ t - created > oneHour

\* lines 304-315: the cleanup callback of setInterval, due every hour
Sweep ==
    /\ now >= nextSweep
    /\ nextSweep' = now + oneHour
    /\ LET old == {sessionId \in DOMAIN chatSessions : Expired(sessionId, now)}
       IN  /\ chatSessions' = MapDelete(chatSessions, old)
           /\ removed' = [k \in DOMAIN removed \cup old |->
                             IF k \in old THEN "swept" ELSE removed[k]]
    /\ lastRes' = NoResponse
    /\ UNCHANGED <<now, chats, reqs, issued, calls, sends, fbVars>>

(***************************************************************************)
(* POST /api/chat/message, lines 120-242.  The handler runs to its first   *)
(* await in one step; each later step is the resumption after an await.    *)
(***************************************************************************)
\* line 123: a destructured field of req.body; <<>> stands for undefined
Field(body, name) == IF name \in DOMAIN body THEN <<body[name]>> ELSE <<>>

\* a missing field and '' are both falsy
Falsy(field) == field = <<>> \/ field[1] = <<>>

\* line 123: stream = false when the field is missing
StreamFlag(body) == IF "stream" \in DOMAIN body THEN body.stream ELSE FALSE

\* lines 126-130: the check of the two required fields
MissingField(body) == Falsy(Field(body, "sessionId")) \/ Falsy(Field(body, "message"))

\* lines 133-134: the lookup of the session
SessionFound(body) == body.sessionId \in DOMAIN chatSessions

\* the exchange recorded in front of the earlier turns
ChatRecordInFront(history, message, reply) ==
    <<[role |-> "user", parts |-> <<message>>],
      [role |-> "model", parts |-> <<reply>>]>> \o history

\* the chat object's record of a completed exchange: the user turn and the
\* model turn are appended together when the provider call succeeds
ChatRecord(history, message, reply) ==
    history \o <<[role |-> "user", parts |-> <<message>>],
                 [role |-> "model", parts |-> <<reply>>]>>

\* the chat object after a provider call that failed: nothing is appended
ChatFailed(history, message) == history

\* history: a provider call on a chat, the text answered and how it ended
Call(message, reply, ok) == [message |-> message, reply |-> reply, ok |-> ok]

Frame(type, text) == [type |-> type, text |-> text]

\* lines 126-139 with both checks in one condition: an unknown session is
\* answered like a missing field
RouteMergedChecks(body) ==
    IF MissingField(body) \/ ~SessionFound(body) THEN "missingField"
    ELSE "call"

\* lines 126-139 with the lookup before the validation
RouteLookupFirst(body) ==
    IF "sessionId" \notin DOMAIN body \/ ~SessionFound(body) THEN "notFound"
    ELSE IF MissingField(body) THEN "missingField"
    ELSE "call"

\* lines 126-139: how the handler answers, in the order of its checks
Route(body) ==
    IF MissingField(body) THEN "missingField"
    ELSE IF ~SessionFound(body) THEN "notFound"
    ELSE "call"

\* lines 120-156 / 193: validation, lookup and the call of the provider
ReceiveMessage(body) ==
    /\ sends' = sends + 1
    /\ LET sessionId == IF "sessionId" \in DOMAIN body THEN body.sessionId ELSE <<>>
       IN  CASE Route(body) = "missingField" ->
                 /\ lastRes' = [Response("message", sessionId, "none", 400,
                                         "missingField", <<>>, FALSE, <<>>, <<>>)
                                   EXCEPT !.complete = ~MissingField(body)]
                 /\ UNCHANGED reqs
             [] Route(body) = "notFound" ->
                 /\ lastRes' = [Response("message", sessionId, "none", 404,
                                         "notFound", <<>>, FALSE, <<>>, <<>>)
                                   EXCEPT !.complete = ~MissingField(body)]
                 /\ UNCHANGED reqs
             [] Route(body) = "call" ->
                 /\ Len(reqs) < MaxInFlight
                 /\ reqs' = Append(reqs,
                                [pc |-> IF StreamFlag(body) THEN "awaitStream" ELSE "awaitSync",
                                 sessionId |-> body.sessionId,
                                 message |-> body.message,
                                 chat |-> chatSessions[body.sessionId],
                                 before |-> chats[chatSessions[body.sessionId]],
                                 fullResponse |-> <<>>, frames |-> <<>>])
                 /\ lastRes' = NoResponse
    /\ UNCHANGED <<now, nextSweep, chatSessions, chats, issued, calls, removed, fbVars>>

\* lines 193-206 with the chat stored again under its identifier
SyncReplyReinserts(r, botReply) ==
    /\ reqs[r].pc = "awaitSync"
    /\ chats' = [chats EXCEPT ![reqs[r].chat] = ChatRecord(@, reqs[r].message, botReply)]
    /\ calls' = [calls EXCEPT ![reqs[r].chat] = Append(@, Call(reqs[r].message, botReply, TRUE))]
    /\ chatSessions' = MapSet(chatSessions, reqs[r].sessionId, reqs[r].chat)
    /\ lastRes' = Response("message", reqs[r].sessionId,
                           "ok", 200, "reply", botReply, FALSE, <<>>, <<>>)
    /\ reqs' = Without(reqs, r)
    /\ UNCHANGED <<now, nextSweep, issued, removed, sends, fbVars>>

\* lines 193-206: chat.sendMessage resolved with the provider's reply
SyncReply(r, botReply) ==
    /\ reqs[r].pc = "awaitSync"
    /\ chats' = [chats EXCEPT ![reqs[r].chat] = ChatRecord(@, reqs[r].message, botReply)]
    /\ calls' = [calls EXCEPT ![reqs[r].chat] = Append(@, Call(reqs[r].message, botReply, TRUE))]
    /\ lastRes' = Response("message", reqs[r].sessionId,
                           "ok", 200, "reply", botReply, FALSE, <<>>, <<>>)
    /\ reqs' = Without(reqs, r)
    /\ UNCHANGED <<now, nextSweep, chatSessions, issued, removed, sends, fbVars>>

\* lines 112-115 in place of lines 231-239: the failure answered as an error
ErrorResponse(sessionId, message) ==
    Response("message", sessionId, "failed", 500, "error",
             <<"Failed to send message">>, FALSE, <<>>, <<>>)

\* lines 231-239: the response of the catch block
FallbackResponse(sessionId, message) ==
    Response("message", sessionId, "failed", 200, "fallback",
             fallbackReply(message), TRUE, <<>>, <<>>)

\* lines 209-241 with the fallback exchange pushed onto the chat's history
SyncFallbackRecorded(r) ==
    /\ reqs[r].pc = "awaitSync"
    /\ chats' = [chats EXCEPT ![reqs[r].chat] =
                    ChatRecord(@, reqs[r].message, fallbackReply(reqs[r].message))]
    /\ lastRes' = FallbackResponse(reqs[r].sessionId, reqs[r].message)
    /\ calls' = [calls EXCEPT ![reqs[r].chat] =
                    Append(@, Call(reqs[r].message, lastRes'.text, FALSE))]
    /\ reqs' = Without(reqs, r)
    /\ UNCHANGED <<now, nextSweep, chatSessions, issued, removed, sends, fbVars>>

\* lines 209-241: chat.sendMessage rejected; the catch answers the fallback
SyncFallback(r) ==
    /\ reqs[r].pc = "awaitSync"
    /\ chats' = [chats EXCEPT ![reqs[r].chat] = ChatFailed(@, reqs[r].message)]
    /\ lastRes' = FallbackResponse(reqs[r].sessionId, reqs[r].message)
    /\ calls' = [calls EXCEPT ![reqs[r].chat] =
                    Append(@, Call(reqs[r].message, lastRes'.text, FALSE))]
    /\ reqs' = Without(reqs, r)
    /\ UNCHANGED <<now, nextSweep, chatSessions, issued, removed, sends, fbVars>>

\* lines 156-157: chat.sendMessageStream resolved; fullResponse = ''
StreamOpened(r) ==
    /\ reqs[r].pc = "awaitStream"
    /\ reqs' = [reqs EXCEPT ![r].pc = "streaming", ![r].fullResponse = <<>>]
    /\ lastRes' = NoResponse
    /\ UNCHANGED <<now, nextSweep, chatSessions, chats, issued, calls,
                   removed, sends, fbVars>>

\* line 161 as fullResponse = chunkText + fullResponse
AccumulateInFront(fullResponse, chunkText) == chunkText \o fullResponse

\* line 161: fullResponse += chunkText
Accumulate(fullResponse, chunkText) == fullResponse \o chunkText

\* lines 159-169: one chunk of the stream is forwarded
StreamChunk(r) ==
    /\ reqs[r].pc = "streaming"
    /\ Len(reqs[r].frames) < MaxChunks
    /\ LET chunkText == ChunkText(Len(reqs[r].frames) + 1)
       IN  reqs' = [reqs EXCEPT ![r].fullResponse = Accumulate(@, chunkText),
                                ![r].frames = Append(@, Frame("chunk", chunkText))]
    /\ lastRes' = NoResponse
    /\ UNCHANGED <<now, nextSweep, chatSessions, chats, issued, calls,
                   removed, sends, fbVars>>

\* lines 171-179: the stream ended; the complete frame is written
StreamComplete(r) ==
    /\ reqs[r].pc = "streaming"
    /\ chats' = [chats EXCEPT ![reqs[r].chat] =
                    ChatRecord(@, reqs[r].message, reqs[r].fullResponse)]
    /\ calls' = [calls EXCEPT ![reqs[r].chat] =
                    Append(@, Call(reqs[r].message, reqs[r].fullResponse, TRUE))]
    /\ lastRes' = Response("message", reqs[r].sessionId,
                           "ok", 200, "stream", <<>>, FALSE,
                           Append(reqs[r].frames, Frame("complete", reqs[r].fullResponse)),
                           <<>>)
    /\ reqs' = Without(reqs, r)
    /\ UNCHANGED <<now, nextSweep, chatSessions, issued, removed, sends, fbVars>>

\* lines 181-189 left out: the failure reaches the catch of lines 209-241
StreamFailedFallback(r) ==
    /\ reqs[r].pc \in {"awaitStream", "streaming"}
    /\ chats' = [chats EXCEPT ![reqs[r].chat] = ChatFailed(@, reqs[r].message)]
    /\ lastRes' = FallbackResponse(reqs[r].sessionId, reqs[r].message)
    /\ calls' = [calls EXCEPT ![reqs[r].chat] = Append(@, Call(reqs[r].message, <<>>, FALSE))]
    /\ reqs' = Without(reqs, r)
    /\ UNCHANGED <<now, nextSweep, chatSessions, issued, removed, sends, fbVars>>

\* lines 181-189 with the text accumulated so far kept as the model turn
StreamFailedKeepsPartial(r) ==
    /\ reqs[r].pc \in {"awaitStream", "streaming"}
    /\ chats' = [chats EXCEPT ![reqs[r].chat] =
                    ChatRecord(@, reqs[r].message, reqs[r].fullResponse)]
    /\ lastRes' = Response("message", reqs[r].sessionId,
                           "failed", 200, "stream", <<>>, FALSE,
                           Append(reqs[r].frames, Frame("error", <<"Streaming failed">>)),
                           <<>>)
    /\ calls' = [calls EXCEPT ![reqs[r].chat] = Append(@, Call(reqs[r].message, <<>>, FALSE))]
    /\ reqs' = Without(reqs, r)
    /\ UNCHANGED <<now, nextSweep, chatSessions, issued, removed, sends, fbVars>>

\* lines 171-189 with the complete frame written before the error frame
StreamFailedAfterComplete(r) ==
    /\ reqs[r].pc \in {"awaitStream", "streaming"}
    /\ chats' = [chats EXCEPT ![reqs[r].chat] = ChatFailed(@, reqs[r].message)]
    /\ lastRes' = Response("message", reqs[r].sessionId,
                           "failed", 200, "stream", <<>>, FALSE,
                           reqs[r].frames \o <<Frame("complete", reqs[r].fullResponse),
                                               Frame("error", <<"Streaming failed">>)>>,
                           <<>>)
    /\ calls' = [calls EXCEPT ![reqs[r].chat] = Append(@, Call(reqs[r].message, <<>>, FALSE))]
    /\ reqs' = Without(reqs, r)
    /\ UNCHANGED <<now, nextSweep, chatSessions, issued, removed, sends, fbVars>>

\* lines 181-189: sendMessageStream rejected or the stream threw
StreamFailed(r) ==
    /\ reqs[r].pc \in {"awaitStream", "streaming"}
    /\ chats' = [chats EXCEPT ![reqs[r].chat] = ChatFailed(@, reqs[r].message)]
    /\ lastRes' = Response("message", reqs[r].sessionId,
                           "failed", 200, "stream", <<>>, FALSE,
                           Append(reqs[r].frames, Frame("error", <<"Streaming failed">>)),
                           <<>>)
    /\ calls' = [calls EXCEPT ![reqs[r].chat] = Append(@, Call(reqs[r].message, <<>>, FALSE))]
    /\ reqs' = Without(reqs, r)
    /\ UNCHANGED <<now, nextSweep, chatSessions, issued, removed, sends, fbVars>>

Next ==
    \/ Tick
    \/ StartSession
    \/ \E sessionId \in PathIds(issued) : GetHistory(sessionId)
    \/ \E sessionId \in PathIds(issued) : DeleteSession(sessionId)
    \/ Sweep
    \/ sends < MaxSends /\ \E body \in Bodies(issued, sends + 1) : ReceiveMessage(body)
    \/ \E r \in Slots, botReply \in Replies : SyncReply(r, botReply)
    \/ \E r \in Slots : SyncFallback(r)
    \/ \E r \in Slots : StreamOpened(r)
    \/ \E r \in Slots : StreamChunk(r)
    \/ \E r \in Slots : StreamComplete(r)
    \/ \E r \in Slots : StreamFailed(r)

\* the whole system: the handlers, the provider, the clock and the timer
Spec == Init /\ [][Next]_vars

\* the clock advances within the current hour
TickWithinHour == Tick /\ now' \div oneHour = now \div oneHour

NextChat ==
    \/ TickWithinHour
    \/ StartSession
    \/ \E sessionId \in PathIds(issued) : GetHistory(sessionId)
    \/ \E sessionId \in PathIds(issued) : DeleteSession(sessionId)
    \/ sends < MaxChatSends /\ \E body \in Bodies(issued, sends + 1) : ReceiveMessage(body)
    \/ \E r \in Slots, botReply \in Replies : SyncReply(r, botReply)
    \/ \E r \in Slots : SyncFallback(r)
    \/ \E r \in Slots : StreamOpened(r)
    \/ \E r \in Slots : StreamChunk(r)
    \/ \E r \in Slots : StreamComplete(r)
    \/ \E r \in Slots : StreamFailed(r)

\* the handlers and the provider within the first hour, before the timer is
\* due: longer conversations and concurrent requests
SpecChat == Init /\ [][NextChat]_vars

\* a step of the provider on a suspended request
Provider ==
    \/ \E r \in Slots, botReply \in Replies : SyncReply(r, botReply)
    \/ \E r \in Slots : SyncFallback(r)
    \/ \E r \in Slots : StreamOpened(r)
    \/ \E r \in Slots : StreamChunk(r)
    \/ \E r \in Slots : StreamComplete(r)
    \/ \E r \in Slots : StreamFailed(r)

\* the handlers within the first hour, with a provider that settles every
\* call and ends every stream
SpecChatLive == Init /\ [][NextChat]_vars /\ WF_vars(Provider)

\* the first start of a session
StartFirst == issued = <<>> /\ StartSession

NextRemoval ==
    \/ Tick
    \/ StartFirst
    \/ \E sessionId \in PathIds(issued) : GetHistory(sessionId)
    \/ \E sessionId \in PathIds(issued) : DeleteSession(sessionId)
    \/ Sweep
    \/ sends < MaxChatSends /\ \E body \in Bodies(issued, sends + 1) : ReceiveMessage(body)
    \/ \E r \in Slots, botReply \in Replies : SyncReply(r, botReply)
    \/ \E r \in Slots : SyncFallback(r)
    \/ \E r \in Slots : StreamOpened(r)
    \/ \E r \in Slots : StreamChunk(r)
    \/ \E r \in Slots : StreamComplete(r)
    \/ \E r \in Slots : StreamFailed(r)

\* one session, the clock and the timer: a session removed by delete-session
\* or by the cleanup while requests for it are suspended, and requests after
SpecRemoval == Init /\ [][NextRemoval]_vars

(***************************************************************************)
(* The store and the timer alone, over more hours: the callback of         *)
(* setInterval runs at the instant it is due, every hour.                  *)
(***************************************************************************)
MaxReaperHours == 2   \* hours of clock of the timer's specification

ReaperInstants ==
    {h * oneHour + o : h \in 0..MaxReaperHours, o \in 0..MaxOffset}

\* the clock advances, at most to the instant the timer is due; a callback
\* that is due runs before the clock advances again
TickToTimer ==
    /\ now < nextSweep
    /\ \E t \in ReaperInstants : t > now /\ t <= nextSweep /\ now' = t
    /\ lastRes' = NoResponse
    /\ UNCHANGED <<nextSweep, chatSessions, chats, reqs, issued, calls,
                   removed, sends, fbVars>>

NextReaper ==
    \/ TickToTimer
    \/ StartSession
    \/ \E sessionId \in PathIds(issued) : GetHistory(sessionId)
    \/ \E sessionId \in PathIds(issued) : DeleteSession(sessionId)
    \/ Sweep

\* the clock keeps running and a due callback is run
SpecReaper ==
    Init /\ [][NextReaper]_vars /\ WF_vars(TickToTimer) /\ WF_vars(Sweep)

(***************************************************************************)
(* Fallback selection alone: the message is an input, the step answers it. *)
(***************************************************************************)
MaxWords == 2   \* words per input message

Words ==
    {kwWorkout, <<"E", "x", "e", "r", "c", "i", "s", "e">>, kwDiet,
     <<"N", "U", "T", "R", "I", "T", "I", "O", "N">>, kwMotivation,
     <<"h", "e", "l", "l", "o">>, <<"w", "o", "r", "k">>}

RECURSIVE Sentences(_)
Sentences(n) ==
    IF n = 0 THEN {<<>>}
    ELSE Sentences(n - 1)
         \cup {s \o <<" ">> \o w : s \in Sentences(n - 1), w \in Words}

FallbackInputs == Sentences(MaxWords)

InitFallback ==
    /\ now = 0
    /\ nextSweep = oneHour
    /\ chatSessions = <<>>
    /\ chats = <<>>
    /\ reqs = <<>>
    /\ lastRes = NoResponse
    /\ issued = <<>>
    /\ calls = <<>>
    /\ removed = <<>>
    /\ sends = 0
    /\ fbMessage \in FallbackInputs
    /\ fbText = <<>>

\* lines 220-234 applied to the input
SelectFallback ==
    /\ fbText = <<>>
    /\ fbText' = fallbackReply(fbMessage)
    /\ UNCHANGED <<now, nextSweep, chatSessions, chats, reqs, lastRes, issued,
                   calls, removed, sends, fbMessage>>

NextFallback == SelectFallback

SpecFallback == InitFallback /\ [][NextFallback]_vars

(***************************************************************************)
(* Properties.                                                             *)
(***************************************************************************)
\* the instant of the latest start that returned this identifier
CreatedAt(sessionId) ==
    issued[CHOOSE i \in 1..Len(issued) :
               /\ issued[i].id = sessionId
               /\ \A j \in (i + 1)..Len(issued) : issued[j].id # sessionId].at

\* C1: every start-session call returns an identifier that no earlier
\* start-session call returned (also when two calls fall into the same clock
\* millisecond), so a start never replaces a stored session.
C1_FreshSessionId ==
    \A i, j \in 1..Len(issued) : i # j => issued[i].id # issued[j].id

\* C2: a send-message request with both fields whose session identifier is
\* not in the store (never created, deleted, or swept) is answered 404, makes
\* no provider call and changes neither the store nor any history.
C2_UnknownSessionNotFound ==
    /\ [](/\ lastRes.op = "message"
          /\ lastRes.complete
          /\ lastRes.provider = "none"
          /\ lastRes.sessionId \notin DOMAIN chatSessions
          => lastRes.status = 404 /\ lastRes.kind = "notFound")
    /\ [][lastRes'.op = "message" /\ lastRes'.status = 404 =>
            /\ lastRes'.sessionId \notin DOMAIN chatSessions
            /\ lastRes'.provider = "none"
            /\ UNCHANGED <<chatSessions, chats, reqs, calls>>]_vars

\* a 404 just answered to a send-message for a session the reaper removed
C2_Witness ==
    /\ lastRes.op = "message"
    /\ lastRes.status = 404
    /\ lastRes.sessionId \in DOMAIN removed
    /\ removed[lastRes.sessionId] = "swept"

\* the successful calls among the calls completed on a chat, in order
RECURSIVE Successful(_)
Successful(log) ==
    IF log = <<>> THEN <<>>
    ELSE IF Head(log).ok THEN <<Head(log)>> \o Successful(Tail(log))
    ELSE Successful(Tail(log))

C4_DeleteTwice ==
    /\ [](\A sessionId \in DOMAIN removed : sessionId \notin DOMAIN chatSessions)
    /\ [][lastRes'.op = "delete" =>
            /\ lastRes'.sessionId \in DOMAIN chatSessions =>
                  /\ lastRes'.status = 200
                  /\ lastRes'.sessionId \notin DOMAIN chatSessions'
            /\ lastRes'.sessionId \in DOMAIN removed =>
                  /\ lastRes'.status = 404
                  /\ UNCHANGED chatSessions]_vars

\* the second delete of a session was just answered 404
C4_Witness ==
    /\ lastRes.op = "delete"
    /\ lastRes.status = 404
    /\ lastRes.sessionId \in DOMAIN removed
    /\ removed[lastRes.sessionId] = "deleted"

\* the identifier was removed by a delete-session and not started since
Deleted(sessionId) ==
    sessionId \in DOMAIN removed /\ removed[sessionId] = "deleted"

\* the session of every start made one millisecond less than an hour ago is
\* stored, unless a delete-session removed it
KeptBeforeOneHour ==
    \A k \in 1..Len(issued) :
        (now = issued[k].at + oneHour - 1 /\ ~Deleted(issued[k].id))
        => issued[k].id \in DOMAIN chatSessions

\* a step of the cleanup callback removes exactly the sessions created
\* before now - oneHour
SweepRemovesExactlyTheOld ==
    nextSweep' # nextSweep =>
        /\ DOMAIN chatSessions' =
              {sessionId \in DOMAIN chatSessions : ~(CreatedAt(sessionId) < now - oneHour)}
        /\ \A sessionId \in DOMAIN chatSessions' :
              chatSessions'[sessionId] = chatSessions[sessionId]

\* C5: with ttl one hour, a session created at T is retrievable at
\* now = T + ttl - 1 (it is kept by a sweep run then) and is not retrievable
\* once a sweep has run at now = T + ttl + 1; a sweep run at time now removes
\* exactly the sessions created before now - ttl and keeps every other
\* session, and nothing but a sweep or a delete-session removes a session.
C5_SweepBoundary ==
    /\ [](KeptBeforeOneHour)
    /\ [][/\ SweepRemovesExactlyTheOld
          /\ nextSweep' # nextSweep =>
                \A sessionId \in DOMAIN chatSessions :
                   /\ now = CreatedAt(sessionId) + oneHour + 1
                         => sessionId \notin DOMAIN chatSessions'
                   /\ now = CreatedAt(sessionId) + oneHour - 1
                         => sessionId \in DOMAIN chatSessions'
          /\ nextSweep' = nextSweep =>
                \A sessionId \in DOMAIN chatSessions :
                   sessionId \in DOMAIN chatSessions' \/ Deleted(sessionId)']_vars

\* a sweep has just removed a session created at now - ttl - 1 and kept one
\* created at now - ttl + 1
C5_Witness ==
    /\ nextSweep = now + oneHour
    /\ \E a \in DOMAIN removed :
          removed[a] = "swept" /\ now = CreatedAt(a) + oneHour + 1
    /\ \E b \in DOMAIN chatSessions : now = CreatedAt(b) + oneHour - 1

\* the texts of the chunk frames, concatenated in the order written
RECURSIVE ChunkConcat(_)
ChunkConcat(frames) ==
    IF frames = <<>> THEN <<>>
    ELSE IF Head(frames).type = "chunk"
         THEN Head(frames).text \o ChunkConcat(Tail(frames))
         ELSE ChunkConcat(Tail(frames))

\* C6: in every successful streaming response the chunk texts, concatenated
\* in emission order, equal the fullText of the complete frame.
C6_ChunksMakeFullText ==
    (lastRes.kind = "stream" /\ lastRes.provider = "ok") =>
        LET frames == lastRes.frames
        IN  /\ frames # <<>>
            /\ frames[Len(frames)].type = "complete"
            /\ frames[Len(frames)].text = ChunkConcat(frames)

\* a stream of two chunks has just been completed
C6_Witness ==
    /\ lastRes.kind = "stream"
    /\ lastRes.provider = "ok"
    /\ Len(lastRes.frames) = 3
    /\ lastRes.frames[1].text # lastRes.frames[2].text

\* the canned texts as the fallback response carries them
OfflineTexts ==
    {fallbackResponses.workout \o offlineSuffix, fallbackResponses.diet \o offlineSuffix,
     fallbackResponses.motivation \o offlineSuffix, fallbackResponses.default \o offlineSuffix}

NoFallbackInHistory ==
    \A c \in 1..Len(chats) : \A k \in 1..Len(chats[c]) :
        /\ chats[c][k].parts[1] \notin OfflineTexts
        /\ chats[c][k].parts[1] \notin
              {fallbackResponses.workout, fallbackResponses.diet,
               fallbackResponses.motivation, fallbackResponses.default}

\* the suspended request that the step answers
Answered(r) == r \in Slots /\ reqs' = Without(reqs, r)

IsPrefix(short, long) ==
    Len(short) <= Len(long) /\ SubSeq(long, 1, Len(short)) = short

Has(keyword) == includes(toLowerCase(fbMessage), keyword)

\* C9 as claimed: input containing "workout" yields the workout tip, input
\* containing "nutrition" yields the diet tip, input containing neither
\* yields the default tip, and the text is exactly the canned text.
C9_AsClaimed ==
    fbText # <<>> =>
        /\ Has(kwWorkout) => fbText = fallbackResponses.workout
        /\ Has(kwNutrition) => fbText = fallbackResponses.diet
        /\ (~Has(kwWorkout) /\ ~Has(kwNutrition)) => fbText = fallbackResponses.default

\* C9 amended: input containing "workout" yields the workout tip; input
\* containing "nutrition" and neither "workout" nor "exercise" yields the
\* diet tip; input containing none of "workout", "exercise", "diet",
\* "nutrition", "motivation" yields the default tip; the text answered is the
\* canned text followed by " (Offline mode)".
C9_FallbackSelection ==
    fbText # <<>> =>
        /\ Has(kwWorkout) => fbText = fallbackResponses.workout \o offlineSuffix
        /\ (Has(kwNutrition) /\ ~Has(kwWorkout) /\ ~Has(kwExercise))
              => fbText = fallbackResponses.diet \o offlineSuffix
        /\ (~Has(kwWorkout) /\ ~Has(kwExercise) /\ ~Has(kwDiet)
               /\ ~Has(kwNutrition) /\ ~Has(kwMotivation))
              => fbText = fallbackResponses.default \o offlineSuffix

\* the diet tip answered to an input whose "nutrition" is in upper case
C9_Witness ==
    /\ Has(kwNutrition)
    /\ ~includes(fbMessage, kwNutrition)
    /\ fbText = fallbackResponses.diet \o offlineSuffix

\* C10: a send-message request missing the session identifier or the message
\* text is answered 400 before any lookup (also for an unknown session), with
\* no provider call and no change to the store or any history.
C10_MissingFieldFirst ==
    /\ []((lastRes.op = "message" /\ ~lastRes.complete) =>
             /\ lastRes.status = 400
             /\ lastRes.kind = "missingField"
             /\ lastRes.provider = "none")
    /\ [][(lastRes'.op = "message" /\ lastRes'.status = 400) =>
             /\ ~lastRes'.complete
             /\ UNCHANGED <<chatSessions, chats, reqs, calls>>]_vars

\* a 400 has just been answered to a request naming an unknown session
C10_Witness ==
    /\ lastRes.op = "message"
    /\ lastRes.status = 400
    /\ lastRes.sessionId = unknownId
    /\ unknownId \notin DOMAIN chatSessions

\* C11: the welcome message returned by start-session is non-empty and is
\* never a turn of a history: a start answers it and stores a chat with no
\* turn, get-history on a session with no successful call returns the empty
\* list, and no chat object ever holds the welcome text.
C11_WelcomeNotInHistory ==
    /\ lastRes.op = "start" =>
          /\ lastRes.text = welcomeMessage
          /\ lastRes.text # <<>>
          /\ lastRes.text[1] # ""
          /\ chats[chatSessions[lastRes.sessionId]] = <<>>
    /\ (/\ lastRes.op = "history"
        /\ lastRes.status = 200
        /\ Successful(calls[chatSessions[lastRes.sessionId]]) = <<>>)
          => lastRes.history = <<>>
    /\ lastRes.op = "history" =>
          \A k \in 1..Len(lastRes.history) :
             lastRes.history[k].text # welcomeMessage
    /\ \A c \in 1..Len(chats) : \A k \in 1..Len(chats[c]) :
          chats[c][k].parts[1] # welcomeMessage

\* get-history has just answered the empty list for a session on which a
\* call failed and none succeeded
C11_Witness ==
    /\ lastRes.op = "history"
    /\ lastRes.status = 200
    /\ lastRes.history = <<>>
    /\ LET log == calls[chatSessions[lastRes.sessionId]]
       IN  Len(log) = 1 /\ ~log[1].ok

\* the frames are the chunks the provider produced, in its order
ChunksInOrder(frames) ==
    \A k \in 1..Len(frames) : frames[k] = Frame("chunk", ChunkText(k))

\* the request was received with stream set
Streaming(r) == reqs[r].pc \in {"awaitStream", "streaming"}

\* C12: a streaming response is zero or more chunk frames in the order the
\* provider produced them, then exactly one terminal frame (complete or
\* error); an open channel carries only chunk frames, each step adds at most
\* one frame at the end, and the terminal frame is written by the step that
\* closes the channel.
C12_OneTerminalFrame ==
    /\ [](/\ \A r \in Slots : ChunksInOrder(reqs[r].frames)
          /\ lastRes.kind = "stream" =>
                /\ lastRes.frames # <<>>
                /\ ChunksInOrder(SubSeq(lastRes.frames, 1, Len(lastRes.frames) - 1))
                /\ lastRes.frames[Len(lastRes.frames)].type \in {"complete", "error"})
    /\ [][/\ Len(reqs') = Len(reqs) =>
                \A r \in Slots :
                   /\ IsPrefix(reqs[r].frames, reqs'[r].frames)
                   /\ Len(reqs'[r].frames) <= Len(reqs[r].frames) + 1
          /\ lastRes'.kind = "stream" =>
                \E r \in Slots :
                   /\ Answered(r)
                   /\ Streaming(r)
                   /\ lastRes'.frames[Len(lastRes'.frames)].type = "complete"
                         <=> lastRes'.provider = "ok"
                   /\ SubSeq(lastRes'.frames, 1, Len(lastRes'.frames) - 1)
                         = reqs[r].frames]_vars

\* a channel has just been closed by an error frame that follows one chunk
C12_Witness ==
    /\ lastRes.kind = "stream"
    /\ Len(lastRes.frames) = 2
    /\ lastRes.frames[1].type = "chunk"
    /\ lastRes.frames[2].type = "error"

\* a failed stream is answered an error frame as its last frame and no
\* complete frame
ErrorFrameOnly ==
    (lastRes.kind = "stream" /\ lastRes.provider = "failed") =>
        /\ lastRes.status = 200
        /\ lastRes.frames[Len(lastRes.frames)] = Frame("error", <<"Streaming failed">>)
        /\ \A k \in 1..Len(lastRes.frames) : lastRes.frames[k].type # "complete"

RECURSIVE Exchanges(_)
Exchanges(log) ==
    IF log = <<>> THEN <<>>
    ELSE <<[role |-> "user", parts |-> <<Head(log).message>>],
           [role |-> "model", parts |-> <<Head(log).reply>>]>>
         \o Exchanges(Tail(log))

\* C14: the exchange of a send-message is appended to the history when its
\* provider call completes, after whatever the history holds then: a history
\* is the exchanges of its successful calls in completion order, whatever
\* the order in which the requests were issued.  (The state in which the
\* request issued second is recorded first is C14_Witness.)
C14_AppendsInCompletionOrder ==
    /\ [](\A c \in 1..Len(chats) : chats[c] = Exchanges(Successful(calls[c])))
    /\ [][(lastRes'.op = "message" /\ lastRes'.provider = "ok") =>
            \E r \in Slots :
               /\ Answered(r)
               /\ LET c == reqs[r].chat
                      call == calls'[c][Len(calls'[c])]
                  IN  /\ call.message = reqs[r].message
                      /\ chats'[c] = chats[c] \o Exchanges(<<call>>)]_vars

\* two requests for one session, the first carrying msgHi and the second
\* msgWorkout, both answered by the provider: the history holds the exchange
\* of the second request before the exchange of the first
C14_Witness ==
    /\ sends = 2
    /\ reqs = <<>>
    /\ \E c \in 1..Len(chats) :
          /\ Len(chats[c]) = 4
          /\ chats[c][1] = [role |-> "user", parts |-> <<msgWorkout>>]
          /\ chats[c][2].role = "model"
          /\ chats[c][3] = [role |-> "user", parts |-> <<msgHi>>]
          /\ chats[c][4].role = "model"

\* C15: get-history changes neither the store nor any history; for a stored
\* session it answers one entry per turn, in the order of the turns, with
\* role user as sender 'user' and any other role as sender 'bot'; for an
\* identifier that is not stored it answers 404.
C15_GetHistoryReadOnly ==
    [][lastRes'.op = "history" =>
         /\ UNCHANGED <<chatSessions, chats, reqs, calls>>
         /\ IF lastRes'.sessionId \in DOMAIN chatSessions
            THEN LET history == chats[chatSessions[lastRes'.sessionId]]
                 IN  /\ lastRes'.status = 200
                     /\ Len(lastRes'.history) = Len(history)
                     /\ \A k \in 1..Len(history) :
                           /\ lastRes'.history[k].id = k - 1
                           /\ lastRes'.history[k].text = history[k].parts[1]
                           /\ history[k].role = "user"
                                 => lastRes'.history[k].sender = "user"
                           /\ history[k].role # "user"
                                 => lastRes'.history[k].sender = "bot"
            ELSE /\ lastRes'.status = 404
                 /\ lastRes'.kind = "notFound"
                 /\ lastRes'.history = <<>>]_vars

\* get-history has just answered the four turns of two exchanges
C15_Witness ==
    /\ lastRes.op = "history"
    /\ lastRes.status = 200
    /\ Len(lastRes.history) = 4
    /\ lastRes.history[1].sender = "user"
    /\ lastRes.history[2].sender = "bot"
    /\ lastRes.history[3].text # lastRes.history[1].text

\* the instants early enough for the timer to come due twice afterwards
\* within the hours of clock
EarlyInstants == {t \in ReaperInstants : t < (MaxReaperHours - 1) * oneHour}

NormalAnswer(r, res) ==
    /\ res.op = "message"
    /\ res.sessionId = reqs[r].sessionId
    /\ res.status = 200
    /\ ~res.isOffline
    /\ IF Streaming(r)
       THEN /\ res.kind = "stream"
            /\ res.frames = Append(reqs[r].frames,
                                    Frame("complete", reqs[r].fullResponse))
       ELSE /\ res.kind = "reply"
            /\ res.text \in Replies

\* C17: a delete-session or a sweep while a send-message is suspended in its
\* provider call leaves the request in flight with its chat object; the
\* step that answers a request never changes the store, and when the
\* provider succeeded the answer is the normal reply or stream also when
\* the session is gone; a removed identifier is not stored, and get-history,
\* delete-session and send-message for it answer 404.
C17_RemovedWhileInFlight ==
    /\ [](/\ \A sessionId \in DOMAIN removed : sessionId \notin DOMAIN chatSessions
          /\ \A r \in Slots : reqs[r].chat \in 1..Len(chats)
          /\ (lastRes.op = "history" /\ lastRes.sessionId \in DOMAIN removed)
                => lastRes.status = 404
          /\ (/\ lastRes.op = "message"
              /\ lastRes.provider = "none"
              /\ lastRes.complete
              /\ lastRes.sessionId \in DOMAIN removed)
                => lastRes.status = 404)
    /\ [][/\ (lastRes'.op = "delete" /\ lastRes'.sessionId \in DOMAIN removed)
                => lastRes'.status = 404
          /\ (DOMAIN chatSessions' # DOMAIN chatSessions /\ ~(lastRes'.op = "start"))
                => reqs' = reqs
          /\ \A r \in Slots :
                Answered(r) =>
                   /\ UNCHANGED <<chatSessions, removed>>
                   /\ lastRes'.provider = "ok" => NormalAnswer(r, lastRes')]_vars

\* a stream has just been completed for a session that the cleanup removed
\* while the request was suspended, after an earlier request for the
\* identifier was answered
C17_Witness ==
    /\ lastRes.kind = "stream"
    /\ lastRes.provider = "ok"
    /\ lastRes.sessionId \in DOMAIN removed
    /\ removed[lastRes.sessionId] = "swept"
    /\ sends = 2

\* the kinds of response to a send-message, each with its status and payload
OneKind(res) ==
    \/ /\ res.kind = "missingField" /\ res.status = 400 /\ res.provider = "none"
       /\ ~res.isOffline /\ res.frames = <<>> /\ res.text = <<>>
    \/ /\ res.kind = "notFound" /\ res.status = 404 /\ res.provider = "none"
       /\ ~res.isOffline /\ res.frames = <<>> /\ res.text = <<>>
    \/ /\ res.kind = "reply" /\ res.status = 200 /\ res.provider = "ok"
       /\ ~res.isOffline /\ res.frames = <<>>
    \/ /\ res.kind = "fallback" /\ res.status = 200 /\ res.provider = "failed"
       /\ res.isOffline /\ res.frames = <<>>
    \/ /\ res.kind = "stream" /\ res.status = 200 /\ res.provider \in {"ok", "failed"}
       /\ ~res.isOffline /\ res.frames # <<>> /\ res.text = <<>>

Untouched(sessionId) ==
    /\ sessionId \in DOMAIN chatSessions'
    /\ chatSessions'[sessionId] = chatSessions[sessionId]
    /\ chats'[chatSessions[sessionId]] = chats[chatSessions[sessionId]]

\* C19: a step of start-session, send-message, get-history or delete-session
\* leaves every stored session whose identifier is not the one of its
\* request untouched, in existence and in history; a step that answers no
\* request and is not the cleanup leaves every session untouched; the
\* cleanup removes sessions but changes no history.
C19_SessionIsolation ==
    [][/\ nextSweep' = nextSweep =>
             \A sessionId \in DOMAIN chatSessions :
                sessionId # lastRes'.sessionId => Untouched(sessionId)
       /\ nextSweep' # nextSweep =>
             /\ chats' = chats
             /\ \A sessionId \in DOMAIN chatSessions' :
                   sessionId \in DOMAIN chatSessions /\ Untouched(sessionId)]_vars

\* a delete-session has just removed one session while another session,
\* with one exchange in its history, is stored
C19_Witness ==
    /\ lastRes.op = "delete"
    /\ lastRes.status = 200
    /\ \E sessionId \in DOMAIN chatSessions :
          /\ sessionId # lastRes.sessionId
          /\ Len(chats[chatSessions[sessionId]]) = 2

====
